---------------------------- MODULE Spec2Model ----------------------------
(***************************************************************************)
(* A model of lain's derived generation / mutation protocol and of its     *)
(* binary codec.                                                           *)
(*                                                                         *)
(*   lain_derive/src/new_fuzzed.rs    #[derive(NewFuzzed)]   (generation)  *)
(*   lain_derive/src/fuzzerobject.rs  #[derive(Mutatable)]   (mutation)    *)
(*   lain/src/buffer.rs               SerializedSize / BinarySerialize     *)
(*   lain/src/types.rs                Constraints, Weighted, UnsafeEnum    *)
(*                                                                         *)
(* The derive macros emit one function body per annotated type.  The model *)
(* executes the emitted body for a type description ("shape") chosen in    *)
(* the initial state.  Rust indices are 0-based, the model's are 1-based.  *)
(*                                                                         *)
(* Option<T> is a sequence of length at most one: None is <<>> and         *)
(* Some(x) is <<x>>.                                                       *)
(*                                                                         *)
(* usize: the remaining budget is the only usize that can wrap.  A wrapped *)
(* budget 2^64 - d is written -d (its representative modulo 2^64 nearest   *)
(* to zero), so that a negative number in max_size always stands for a     *)
(* value close to usize::MAX.                                              *)
(***************************************************************************)
EXTENDS Integers, Sequences, FiniteSets, TLC

\* ------------------------------------------------------------------ bounds

\* Largest incoming max_size tried.
MaxBudget == 20
\* Longest text a child generator produces when it is handed no usable budget.
MaxText == 3
\* Largest number of declared variants of an enum.
MaxVariants == 3
\* Longest sequence handed to the sequence operations of the codec.
MaxSeqLen == 3
\* Largest number of write calls a faulty sink answers before it recovers.
MaxFaults == 2
\* Largest number of fields of a struct that is mutated.
MaxMutFields == 3

\* ------------------------------------------------------------ Option<T>

None == <<>>
Some(x) == <<x>>
IsSome(o) == Len(o) = 1
Unwrap(o) == o[1]

\* ------------------------------------------------- scalar sizes (codec)

\* The scalar types of impl_serialized_size!(...) and impl_buffer_pushable!(...).
ScalarTypes == {"i64", "u64", "i32", "u32", "i16", "u16", "f32", "f64", "u8", "i8", "bool"}

\* std::mem::size_of::<$name>() for the scalar types.
SizeOfType(t) ==
    CASE t \in {"u8", "i8", "bool"} -> 1
      [] t \in {"u16", "i16"} -> 2
      [] t \in {"u32", "i32", "f32"} -> 4
      [] t \in {"u64", "i64", "f64"} -> 8

\* A generated field value: its type, its byte length when it is text, and
\* where it came from.  A scalar's numeric value does not matter to generation.
FieldValue(ty, len, origin) == [ty |-> ty, len |-> len, origin |-> origin]

\* value.serialized_size() of a field value: String is its UTF-8 byte length,
\* a scalar its width.
ValueSerializedSize(v) ==
    IF v.ty = "String" THEN v.len ELSE SizeOfType(v.ty)

\* ------------------------------------------------------------------ state

VARIABLES
    \* ---- struct generation (gen_struct_new_fuzzed_impl)
    shape,          \* the struct's fields, in declaration order
    consIn,         \* the caller's constraint: Option<&Constraints>
    shouldFixup,    \* mutator.should_fixup()
    overflowChecks, \* the build: TRUE panics on integer overflow, FALSE wraps
    pc,             \* position in the emitted body
    max_size,       \* the local Option<usize> budget
    order,          \* the visitation order
    pos,            \* next position of order to visit
    fields,         \* the struct under construction: field -> Option<value>
    rngDraws,       \* draws taken from mutator.rng by this body itself
    calls,          \* the constraints handed to the children, in call order
    fixupLog        \* the fields fixup was invoked on, in call order

genVars == <<shape, consIn, shouldFixup, overflowChecks, pc, max_size, order,
             pos, fields, rngDraws, calls, fixupLog>>

VARIABLES
    \* ---- struct mutation (gen_struct_mutate_impl, gen_mutate_impl)
    mN,           \* the number of named fields of the struct
    mVal,         \* self: field -> leaf value
    mPre,         \* the value of self when mutate was called
    mShouldFixup, \* mutator.should_fixup()
    mPc,          \* position in the emitted mutate body, then in the driver
    mPos,         \* the next field (declaration order) to mutate
    mBailedAt,    \* the field after which should_early_bail_mutation said yes
    mLog          \* what mutate called, in order: <<what, field>>

mutVars == <<mN, mVal, mPre, mShouldFixup, mPc, mPos, mBailedAt, mLog>>

VARIABLES
    \* ---- enum generation and mutation (new_fuzzed_helper, gen_mutate_impl)
    eShape,       \* the enum's variants, in declaration order
    eCode,        \* what the derives emitted for the enum
    eDist,        \* the lazy_static dist: "uninit", "ready" or "poisoned"
    eSelf,        \* the value held: Option<[variant, payload]>
    ePre,         \* the value held before the last call
    eLast,        \* how the last call ended
    eDraws        \* draws the last call took from mutator.rng

enumVars == <<eShape, eCode, eDist, eSelf, ePre, eLast, eDraws>>

VARIABLES
    \* ---- codec (buffer.rs)
    sink,         \* the bytes written so far (an in-memory Vec<u8>)
    cOp,          \* the last operation and its operands
    cSize,        \* what serialized_size() returned for the last operand
    cWrote        \* how many bytes the last binary_serialize appended

codecVars == <<sink, cOp, cSize, cWrote>>

VARIABLES
    \* ---- codec on a sink that may fail (buffer.rs, W: Write)
    wPlan,        \* how the sink answers the write calls made on it, in order
    wSink,        \* the sink: bytes accepted, answers left, write calls seen
    wOp,          \* the binary_serialize call made and its operands
    wTried,       \* the leaf values whose binary_serialize was entered
    wRet          \* how the call ended: "returned" or "panicked"

sinkVars == <<wPlan, wSink, wOp, wTried, wRet>>

vars == <<genVars, mutVars, enumVars, codecVars, sinkVars>>

\* What each subsystem's operations leave alone: the other subsystems.
GenFrame == UNCHANGED <<mutVars, enumVars, codecVars, sinkVars>>
MutFrame == UNCHANGED <<genVars, enumVars, codecVars, sinkVars>>
EnumFrame == UNCHANGED <<genVars, mutVars, codecVars, sinkVars>>
CodecFrame == UNCHANGED <<genVars, mutVars, enumVars, sinkVars>>
SinkFrame == UNCHANGED <<genVars, mutVars, enumVars, codecVars>>

\* A subsystem no call has been made on.
GenIdle ==
    /\ shape = << >> /\ consIn = << >> /\ shouldFixup = FALSE
    /\ overflowChecks = FALSE /\ pc = "idle" /\ max_size = << >>
    /\ order = << >> /\ pos = 1 /\ fields = << >> /\ rngDraws = 0
    /\ calls = << >> /\ fixupLog = << >>

MutIdle ==
    /\ mN = 0 /\ mVal = << >> /\ mPre = << >> /\ mShouldFixup = FALSE
    /\ mPc = "idle" /\ mPos = 1 /\ mBailedAt = 0 /\ mLog = << >>

EnumIdle ==
    /\ eShape = << >> /\ eCode = << >> /\ eDist = "uninit" /\ eSelf = << >> /\ ePre = << >>
    /\ eLast = [op |-> "idle", out |-> "idle"] /\ eDraws = 0

CodecIdle ==
    /\ sink = << >> /\ cOp = [op |-> "idle"] /\ cSize = 0 /\ cWrote = 0

SinkIdle ==
    /\ wPlan = << >> /\ wSink = << >> /\ wOp = [op |-> "idle"]
    /\ wTried = << >> /\ wRet = "idle"

\* ------------------------------------------------ struct descriptions

\* One named field as parse_fields hands it to the derive: its type, the
\* ignore flag, the user initializer (the byte length of the text it
\* evaluates to; unused for a scalar), and the declared min, max and weighted.
Field(ty, ignore, init, min, max, weighted) ==
    [ty |-> ty, ignore |-> ignore, init |-> init,
     min |-> min, max |-> max, weighted |-> weighted]

Plain(ty) == Field(ty, FALSE, None, None, None, "None")

\* The struct types generation is run on.
StructShapes ==
    { <<Plain("u8"), Plain("u8"), Plain("String")>>,
      <<Plain("u16"), Plain("String"), Plain("u32")>>,
      <<Plain("String"), Plain("u64"), Plain("u64")>>,
      <<Plain("u16"), Plain("u32")>>,
      <<Field("u32", TRUE, None, None, None, "None"),
        Plain("String"),
        Field("u16", FALSE, Some(0), None, None, "None")>>,
      <<Field("String", FALSE, None, Some(1), Some(3), "Min"),
        Field("u8", FALSE, None, None, None, "Max"),
        Field("String", TRUE, Some(2), None, None, "None")>>,
      <<Field("String", FALSE, Some(2), None, None, "None"),
        Field("u8", FALSE, None, Some(0), None, "None")>>,
      << >> }

\* Constraints<T> of types.rs.
Constraints(min, max, weighted, maxSize) ==
    [min |-> min, max |-> max, weighted |-> weighted, max_size |-> maxSize]

\* Constraints::default(): every Option None, Weighted::None.
ConstraintsDefault == Constraints(None, None, "None", None)

\* The constraints a caller passes to new_fuzzed.
IncomingConstraints ==
    {None, Some(ConstraintsDefault)}
        \cup {Some(Constraints(None, None, "None", Some(b))) : b \in 0..MaxBudget}

\* Self::is_variable_size(): some field's serialized size is not fixed by its
\* type.
IsVariableSize(sh) == \E i \in 1..Len(sh) : sh[i].ty = "String"

\* SamplePermutations as it would be if the indices were drawn one by one
\* with replacement.
SampleWithReplacement(n) == [1..n -> 1..n]

\* rand::seq::index::sample(rng, n, n): n distinct indices, in any order.
SamplePermutations(n) ==
    {p \in [1..n -> 1..n] : \A i, j \in 1..n : p[i] = p[j] => i = j}

\* <T>::default() of a field's type: the empty String, the zero scalar.
DefaultValue(ty) == FieldValue(ty, 0, "default")

\* The value of a field's user initializer expression.
InitializerValue(f) ==
    FieldValue(f.ty, IF f.ty = "String" THEN Unwrap(f.init) ELSE 0, "init")

\* DefaultConstraints as it would be if every field were handed the
\* caller's max_size instead of what is left of it.
DefaultConstraintsOfCaller(f, maxSize) ==
    LET incoming == IF IsSome(consIn) THEN Unwrap(consIn).max_size ELSE None IN
    IF IsSome(f.min) \/ IsSome(f.max)
    THEN Some(Constraints(f.min, f.max, f.weighted, incoming))
    ELSE IF IsSome(incoming)
         THEN Some(Constraints(None, None, "None", Some(Unwrap(incoming))))
         ELSE None

\* let constraints = ...: the constraint derived for a generated field from
\* its declared min/max/weighted and the remaining budget.
DefaultConstraints(f, maxSize) ==
    IF IsSome(f.min) \/ IsSome(f.max)
    THEN Some(Constraints(f.min, f.max, f.weighted, maxSize))
    ELSE IF IsSome(maxSize)
         THEN Some(Constraints(None, None, "None", Some(Unwrap(maxSize))))
         ELSE None

\* The byte lengths a text generator may produce under a constraint: never
\* more than the max_size it is handed.
TextLengths(cons) ==
    IF IsSome(cons) /\ IsSome(Unwrap(cons).max_size)
          /\ Unwrap(Unwrap(cons).max_size) >= 0
    THEN 0..Unwrap(Unwrap(cons).max_size)
    ELSE 0..MaxText

\* <#ty>::new_fuzzed(mutator, constraints.as_ref()) of a field's type: the
\* values the child generator may return.  A scalar always has its width.
NewFuzzedChild(ty, cons) ==
    IF ty = "String"
    THEN {FieldValue(ty, n, "fuzzed") : n \in TextLengths(cons)}
    ELSE {FieldValue(ty, 0, "fuzzed")}

\* ---------------------------------------------------- struct generation

NumFields == Len(shape)

GenInit ==
    /\ shape \in StructShapes
    /\ consIn \in IncomingConstraints
    /\ shouldFixup \in BOOLEAN
    /\ overflowChecks \in BOOLEAN
    /\ pc = "start"
    /\ max_size = None
    /\ order = << >>
    /\ pos = 1
    /\ fields = [i \in 1..Len(shape) |-> None]
    /\ rngDraws = 0
    /\ calls = << >>
    /\ fixupLog = << >>

\* let mut max_size = if let Some(ref mut constraints) = constraints
\*     { constraints.max_size.clone() } else { None };
BudgetIntake ==
    /\ pc = "start"
    /\ max_size' = IF IsSome(consIn) THEN Unwrap(consIn).max_size ELSE None
    /\ pc' = "order"
    /\ UNCHANGED <<shape, consIn, shouldFixup, overflowChecks, order, pos,
                   fields, rngDraws, calls, fixupLog>>
    /\ GenFrame

\* if Self::is_variable_size() { for i in sample(rng, n, n).iter() { ... } }
SampleOrder ==
    /\ pc = "order"
    /\ IsVariableSize(shape)
    /\ \E p \in SamplePermutations(NumFields) :
          order' = [k \in 1..NumFields |-> p[k]]
    /\ rngDraws' = rngDraws + 1
    /\ pc' = "fields"
    /\ UNCHANGED <<shape, consIn, shouldFixup, overflowChecks, max_size, pos,
                   fields, calls, fixupLog>>
    /\ GenFrame

\* else { #(#generate_linear)* }: the arms in declaration order.
LinearOrder ==
    /\ pc = "order"
    /\ ~IsVariableSize(shape)
    /\ order' = [k \in 1..NumFields |-> k]
    /\ pc' = "fields"
    /\ UNCHANGED <<shape, consIn, shouldFixup, overflowChecks, max_size, pos,
                   fields, rngDraws, calls, fixupLog>>
    /\ GenFrame

\* *max_size -= size overflows: the budget is a true (unwrapped) usize that
\* is smaller than the size taken from it.
Underflows(budget, size) == budget >= 0 /\ size > budget

\* if let Some(ref mut max_size) = max_size { *max_size -= value.serialized_size(); }
\* followed by std::ptr::write(field_ptr, value): the tail of every arm.
\* With overflow checks the subtraction panics on underflow and new_fuzzed
\* unwinds; without them it wraps.
DecrementAndStore(i, value) ==
    LET size == ValueSerializedSize(value) IN
    IF IsSome(max_size) /\ Underflows(Unwrap(max_size), size) /\ overflowChecks
    THEN /\ pc' = "panicked"
         /\ UNCHANGED <<max_size, fields, pos>>
    ELSE /\ max_size' = IF IsSome(max_size)
                        THEN Some(Unwrap(max_size) - size)
                        ELSE None
         /\ fields' = [fields EXCEPT ![i] = Some(value)]
         /\ pos' = pos + 1
         /\ pc' = "fields"

\* GenerateIgnored as it would be if the user initializer were looked at
\* before the ignore flag.
GenerateIgnoredInitializerFirst ==
    /\ pc = "fields"
    /\ pos <= Len(order)
    /\ shape[order[pos]].ignore
    /\ DecrementAndStore(order[pos],
                         IF IsSome(shape[order[pos]].init)
                         THEN InitializerValue(shape[order[pos]])
                         ELSE DefaultValue(shape[order[pos]].ty))
    /\ UNCHANGED <<shape, consIn, shouldFixup, overflowChecks, order,
                   rngDraws, calls, fixupLog>>
    /\ GenFrame

\* if f.ignore { let value = <#ty>::default(); }
GenerateIgnored ==
    /\ pc = "fields"
    /\ pos <= Len(order)
    /\ shape[order[pos]].ignore
    /\ DecrementAndStore(order[pos], DefaultValue(shape[order[pos]].ty))
    /\ UNCHANGED <<shape, consIn, shouldFixup, overflowChecks, order,
                   rngDraws, calls, fixupLog>>
    /\ GenFrame

\* else if let Some(ref initializer) = f.user_initializer { let value = #initializer; }
GenerateInitializer ==
    /\ pc = "fields"
    /\ pos <= Len(order)
    /\ ~shape[order[pos]].ignore
    /\ IsSome(shape[order[pos]].init)
    /\ DecrementAndStore(order[pos], InitializerValue(shape[order[pos]]))
    /\ UNCHANGED <<shape, consIn, shouldFixup, overflowChecks, order,
                   rngDraws, calls, fixupLog>>
    /\ GenFrame

\* else { #default_constraints
\*        let value = <#ty>::new_fuzzed(mutator, constraints.as_ref()); }
GenerateFuzzed ==
    /\ pc = "fields"
    /\ pos <= Len(order)
    /\ ~shape[order[pos]].ignore
    /\ ~IsSome(shape[order[pos]].init)
    /\ LET i == order[pos]
           cons == DefaultConstraints(shape[i], max_size)
       IN /\ calls' = Append(calls, [field |-> i, cons |-> cons])
          /\ \E value \in NewFuzzedChild(shape[i].ty, cons) :
                DecrementAndStore(i, value)
    /\ UNCHANGED <<shape, consIn, shouldFixup, overflowChecks, order,
                   rngDraws, fixupLog>>
    /\ GenFrame

\* FixupCalls as it would be if the fields were fixed up in the order in
\* which they were generated.
FixupCallsInVisitationOrder(n) == [k \in 1..n |-> order[k]]

\* initialized_struct.fixup(mutator): get_post_mutation_impl emits one
\* <#field_ty>::fixup(&mut self.#field_name, mutator) per field, in
\* declaration order.
FixupCalls(n) == [k \in 1..n |-> k]

\* let mut initialized_struct = unsafe { uninit_struct.assume_init() };
\* if mutator.should_fixup() { initialized_struct.fixup(mutator); }
\* initialized_struct
FinishWithFixup ==
    /\ pc = "fields"
    /\ pos > Len(order)
    /\ shouldFixup
    /\ fixupLog' = fixupLog \o FixupCalls(NumFields)
    /\ pc' = "done"
    /\ UNCHANGED <<shape, consIn, shouldFixup, overflowChecks, max_size,
                   order, pos, fields, rngDraws, calls>>
    /\ GenFrame

FinishNoFixup ==
    /\ pc = "fields"
    /\ pos > Len(order)
    /\ ~shouldFixup
    /\ pc' = "done"
    /\ UNCHANGED <<shape, consIn, shouldFixup, overflowChecks, max_size,
                   order, pos, fields, rngDraws, calls, fixupLog>>
    /\ GenFrame

GenNext ==
    \/ BudgetIntake
    \/ SampleOrder
    \/ LinearOrder
    \/ GenerateIgnored
    \/ GenerateInitializer
    \/ GenerateFuzzed
    \/ FinishWithFixup
    \/ FinishNoFixup

\* The encoded byte length of the struct new_fuzzed returned: the sum of its
\* fields' serialized sizes.
RECURSIVE SumFieldSizes(_, _)
SumFieldSizes(fs, n) ==
    IF n = 0 THEN 0
    ELSE SumFieldSizes(fs, n - 1) + ValueSerializedSize(Unwrap(fs[n]))

EncodedLength == SumFieldSizes(fields, NumFields)

\* ------------------------------------------------------ struct mutation

\* The payloads a leaf value (a struct's field, a variant's payload) takes.
LeafPayloads == {0, 1}

\* A leaf field value: a payload, and whether fixup has touched it since it
\* was last written.
Leaf(v, fixed) == [v |-> v, fixed |-> fixed]
LeafValues == {Leaf(v, FALSE) : v \in LeafPayloads}

\* <#ty>::mutate(&mut self.#ident, mutator, constraints) of a leaf: any
\* payload of the type may result.
MutatedLeaves == {Leaf(v, FALSE) : v \in LeafPayloads}

\* <#ty>::fixup(&mut self.#ident, mutator) of a leaf.
FixupLeaf(l) == Leaf(l.v, TRUE)

\* self.fixup(mutator): get_post_mutation_impl fixes every field up, in
\* declaration order.
FixupAll(val) == [k \in 1..Len(val) |-> FixupLeaf(val[k])]
FixupAllEvents(n) == [k \in 1..n |-> <<"fixup", k>>]

MutInit ==
    /\ mN \in 0..MaxMutFields
    /\ mVal \in [1..mN -> LeafValues]
    /\ mPre = mVal
    /\ mShouldFixup \in BOOLEAN
    /\ mPc = "fields"
    /\ mPos = 1
    /\ mBailedAt = 0
    /\ mLog = << >>

\* MutateFieldContinue as it would be if should_early_bail_mutation were
\* consulted before the field is mutated.
MutateFieldContinueBailFirst ==
    /\ mPc = "fields"
    /\ mPos <= mN
    /\ \E l \in MutatedLeaves : mVal' = [mVal EXCEPT ![mPos] = l]
    /\ mLog' = mLog \o << <<"bail?", mPos>>, <<"mutate", mPos>> >>
    /\ mPos' = mPos + 1
    /\ UNCHANGED <<mN, mPre, mShouldFixup, mPc, mBailedAt>>
    /\ MutFrame

\* One element of mutation_parts with should_early_bail_mutation() false:
\* the field is mutated and the body goes on with the next field.
MutateFieldContinue ==
    /\ mPc = "fields"
    /\ mPos <= mN
    /\ \E l \in MutatedLeaves : mVal' = [mVal EXCEPT ![mPos] = l]
    /\ mLog' = mLog \o << <<"mutate", mPos>>, <<"bail?", mPos>> >>
    /\ mPos' = mPos + 1
    /\ UNCHANGED <<mN, mPre, mShouldFixup, mPc, mBailedAt>>
    /\ MutFrame

\* MutateFieldBail as it would be if the early return only left the field
\* loop, so that the trailing self.fixup(mutator) of mutate still ran.
MutateFieldBailThenFixupAll ==
    /\ mPc = "fields"
    /\ mPos <= mN
    /\ \E l \in MutatedLeaves :
          mVal' = IF mShouldFixup
                  THEN FixupAll([mVal EXCEPT ![mPos] = l])
                  ELSE [mVal EXCEPT ![mPos] = l]
    /\ mLog' = mLog \o << <<"mutate", mPos>>, <<"bail?", mPos>> >>
                    \o (IF mShouldFixup THEN FixupAllEvents(mN) ELSE << >>)
    /\ mBailedAt' = mPos
    /\ mPc' = "returned"
    /\ UNCHANGED <<mN, mPre, mShouldFixup, mPos>>
    /\ MutFrame

\* MutateFieldBail as it would be if the bail fixed up every field mutated
\* in this pass, the first up to the one it stopped on.
MutateFieldBailFixupMutated ==
    /\ mPc = "fields"
    /\ mPos <= mN
    /\ \E l \in MutatedLeaves :
          mVal' = IF mShouldFixup
                  THEN [k \in 1..mN |->
                          IF k < mPos THEN FixupLeaf(mVal[k])
                          ELSE IF k = mPos THEN FixupLeaf(l) ELSE mVal[k]]
                  ELSE [mVal EXCEPT ![mPos] = l]
    /\ mLog' = mLog \o << <<"mutate", mPos>>, <<"bail?", mPos>> >>
                    \o (IF mShouldFixup THEN FixupAllEvents(mPos) ELSE << >>)
    /\ mBailedAt' = mPos
    /\ mPc' = "returned"
    /\ UNCHANGED <<mN, mPre, mShouldFixup, mPos>>
    /\ MutFrame

\* One element of mutation_parts with should_early_bail_mutation() true:
\* if mutator.should_fixup() { <#ty>::fixup(&mut self.#ident, mutator); } return;
\* The return leaves mutate itself: the trailing self.fixup is not reached.
MutateFieldBail ==
    /\ mPc = "fields"
    /\ mPos <= mN
    /\ \E l \in MutatedLeaves :
          mVal' = [mVal EXCEPT ![mPos] = IF mShouldFixup THEN FixupLeaf(l) ELSE l]
    /\ mLog' = mLog \o << <<"mutate", mPos>>, <<"bail?", mPos>> >>
                    \o (IF mShouldFixup THEN << <<"fixup", mPos>> >> ELSE << >>)
    /\ mBailedAt' = mPos
    /\ mPc' = "returned"
    /\ UNCHANGED <<mN, mPre, mShouldFixup, mPos>>
    /\ MutFrame

\* MutateFinish as it would be without the trailing fixup of mutate.
MutateFinishNoFixup ==
    /\ mPc = "fields"
    /\ mPos > mN
    /\ mPc' = "returned"
    /\ UNCHANGED <<mN, mVal, mPre, mShouldFixup, mPos, mBailedAt, mLog>>
    /\ MutFrame

\* The tail of mutate after #mutate_body ran to its end:
\* if mutator.should_fixup() { self.fixup(mutator); }
MutateFinish ==
    /\ mPc = "fields"
    /\ mPos > mN
    /\ mVal' = IF mShouldFixup THEN FixupAll(mVal) ELSE mVal
    /\ mLog' = mLog \o (IF mShouldFixup THEN FixupAllEvents(mN) ELSE << >>)
    /\ mPc' = "returned"
    /\ UNCHANGED <<mN, mPre, mShouldFixup, mPos, mBailedAt>>
    /\ MutFrame

\* OnSuccessEvents as it would be if the fields were visited last to first.
OnSuccessEventsLastToFirst(n) == [k \in 1..n |-> <<"on_success", n + 1 - k>>]

\* The body get_post_fuzzer_iteration_impls emits for on_success(&self): one
\* <#field_type>::on_success(&self.#field_name) per field, in declaration
\* order.
OnSuccessEvents(n) == [k \in 1..n |-> <<"on_success", k>>]

\* self.on_success(), called by the driver on the value mutate returned.
\* It takes &self: no field is written.
OnSuccess ==
    /\ mPc = "returned"
    /\ mLog' = mLog \o OnSuccessEvents(mN)
    /\ mPc' = "observed"
    /\ UNCHANGED <<mN, mVal, mPre, mShouldFixup, mPos, mBailedAt>>
    /\ MutFrame

MutNext ==
    \/ MutateFieldContinue
    \/ MutateFieldBail
    \/ MutateFinish
    \/ OnSuccess


\* ------------------------------------------------- enum descriptions

\* One declared variant with its parsed attributes: whether it carries a
\* payload (syn::Fields::Unnamed) or is a unit variant, its #[weight(N)]
\* (1 when not declared) and its #[fuzzer(ignore)] flag.
Variant(payload, weight, ignore) ==
    [payload |-> payload, weight |-> weight, ignore |-> ignore]

\* The weights a variant may declare.
DeclaredWeights == {0, 1, 3}

\* The variant declarations tried: every weight on a variant that takes
\* part in generation, and a nonzero weight on an ignored one.
VariantDecls ==
    {Variant(p, w, FALSE) : p \in BOOLEAN, w \in DeclaredWeights}
        \cup {Variant(p, 1, TRUE) : p \in BOOLEAN}

\* The enum types generation and mutation are run on.
EnumShapes ==
    UNION {[1..n -> VariantDecls] : n \in 1..MaxVariants}

\* -------------------------------------- derive time (new_fuzzed_helper)

\* PushedVariants as it would be without the `continue` for an ignored
\* variant: every declared variant is pushed.
RECURSIVE PushedVariantsNoSkip(_, _)
PushedVariantsNoSkip(sh, n) ==
    IF n = 0 THEN << >> ELSE Append(PushedVariantsNoSkip(sh, n - 1), n)

\* The derive's `variants` vector after the loop over data.variants: a
\* variant whose ignore flag is set is skipped by `continue` before the
\* push, the others are pushed in declaration order.  Each entry is the
\* declared position of the variant it describes.
RECURSIVE PushedVariants(_, _)
PushedVariants(sh, n) ==
    IF n = 0 THEN << >>
    ELSE IF sh[n].ignore
         THEN PushedVariants(sh, n - 1)
         ELSE Append(PushedVariants(sh, n - 1), n)

\* let variants: Vec<&Variant> = variants.iter().filter(|v| !v.ignore).collect();
KeptVariants(sh) ==
    SelectSeq(PushedVariants(sh, Len(sh)), LAMBDA d : ~sh[d].ignore)

\* let variant_count = variants.len();
VariantCount(sh) == Len(KeptVariants(sh))

\* let weights = variants.iter().map(|v| v.weight);
Weights(sh) ==
    [k \in 1..VariantCount(sh) |-> sh[KeptVariants(sh)[k]].weight]

\* enum_contains_items: set when a variant that is not ignored has unnamed
\* fields.
EnumContainsItems(sh) ==
    \E k \in 1..VariantCount(sh) : sh[KeptVariants(sh)[k]].payload

\* let index = variants.len(): the selector index (1-based here) written
\* into a payload variant's arm is its position in `variants` at the push.
ArmIndex(sh, d) ==
    CHOOSE k \in 1..Len(PushedVariants(sh, Len(sh))) :
        PushedVariants(sh, Len(sh))[k] = d

\* The variants whose initializer is an arm of `match num`: a payload
\* variant's initializer is `#index => { ...; return #full_ident(#parameters); }`,
\* a unit variant's is the empty token stream and contributes no arm.
ArmVariants(sh) ==
    {KeptVariants(sh)[k] : k \in {j \in 1..VariantCount(sh) :
                                      sh[KeptVariants(sh)[j]].payload}}

\* The selector indices that have an arm, and the variant an index builds.
MatchArms(sh) == {ArmIndex(sh, d) : d \in ArmVariants(sh)}
ArmVariant(sh, num) == CHOOSE d \in ArmVariants(sh) : ArmIndex(sh, d) = num

\* static options: [#name; #variant_count] = [#(#variant_tokens,)*];
Options(sh) == KeptVariants(sh)

\* ------------------------------------------- rand::WeightedIndex<u64>

RECURSIVE SumSeq(_, _)
SumSeq(w, n) == IF n = 0 THEN 0 ELSE SumSeq(w, n - 1) + w[n]

TotalWeight(w) == SumSeq(w, Len(w))

\* WeightedIndex::new(weights): Err(NoItem) for an empty list,
\* Err(AllWeightsZero) for a zero total, else the distribution.
WeightedIndexNewFails(w) == Len(w) = 0 \/ TotalWeight(w) = 0

\* dist.sample(rng) for the draw r of 0..total-1: the first index whose
\* cumulative weight exceeds r.
WeightedIndexSample(w, r) ==
    CHOOSE k \in 1..Len(w) :
        /\ SumSeq(w, k) > r
        /\ \A j \in 1..(k - 1) : SumSeq(w, j) <= r

\* ------------------------------------- enum generation (emitted body)

\* enum_has_simple_variants of gen_mutate_impl: the loop over data.variants
\* stops at the first unit variant it meets, whatever its attributes.
EnumHasSimpleVariants(sh) == \E d \in 1..Len(sh) : ~sh[d].payload

\* What the two derives emit for an enum: the statics and the match arms of
\* new_fuzzed, and which of the two mutate bodies was chosen.
Derive(sh) ==
    [weights |-> Weights(sh),
     containsItems |-> EnumContainsItems(sh),
     arms |-> [num \in MatchArms(sh) |-> ArmVariant(sh, num)],
     options |-> Options(sh),
     replaceOnMutate |-> EnumHasSimpleVariants(sh)]

EnumValue(variant, payload) == [variant |-> variant, payload |-> payload]

\* How a call ended, the state of the lazy_static dist after it, the draws
\* it took from mutator.rng, and the value it returned (if it returned).
CallResult(out, dist, draws, value) ==
    [out |-> out, dist |-> dist, draws |-> draws, value |-> value]

\* The body for an enum with payload variants:
\*     let num: usize = dist.sample(&mut mutator.rng);
\*     match num { #(#variant_initializers)* i => panic!("got an invalid number ...") }
\* Dereferencing dist runs WeightedIndex::new(weights.iter()).unwrap() the
\* first time; a panic there poisons the lazy_static for good.  Each payload
\* field is generated by NewFuzzed::new_fuzzed(mutator, None).
NewFuzzedItems(code, dist) ==
    IF dist = "poisoned" \/ (dist = "uninit" /\ WeightedIndexNewFails(code.weights))
    THEN {CallResult("panic_construct", "poisoned", 0, None)}
    ELSE UNION {
           LET num == WeightedIndexSample(code.weights, r) IN
           IF num \in DOMAIN code.arms
           THEN {CallResult("value", "ready", 1, Some(EnumValue(code.arms[num], v)))
                    : v \in LeafPayloads}
           ELSE {CallResult("panic_invalid_number", "ready", 1, None)}
         : r \in 0..(TotalWeight(code.weights) - 1) }

\* The body for an enum whose variants are all unit variants:
\*     static options: [#name; #variant_count] = [#(#variant_tokens,)*];
\*     *options.choose(&mut mutator.rng).unwrap()
\* choose is uniform over the slice and None on an empty one; dist is never
\* dereferenced, so it is never constructed.
NewFuzzedUnit(code, dist) ==
    IF Len(code.options) = 0
    THEN {CallResult("panic_choose", dist, 0, None)}
    ELSE {CallResult("value", dist, 1, Some(EnumValue(code.options[k], 0)))
            : k \in 1..Len(code.options)}

\* #inner_body of new_fuzzed.
NewFuzzedEnum(code, dist) ==
    IF code.containsItems THEN NewFuzzedItems(code, dist)
    ELSE NewFuzzedUnit(code, dist)

\* --------------------------------------- enum mutation (emitted body)

\* The values of an enum type: any declared variant, a unit variant with no
\* payload to speak of.
EnumValues(sh) ==
    {EnumValue(d, v) : d \in 1..Len(sh), v \in LeafPayloads}
        \ {EnumValue(d, v) : d \in {x \in 1..Len(sh) : ~sh[x].payload},
                             v \in LeafPayloads \ {0}}

EnumInit ==
    /\ eShape \in EnumShapes
    /\ eCode = Derive(eShape)
    /\ eDist = "uninit"
    /\ eSelf \in {Some(x) : x \in EnumValues(eShape)}
    /\ ePre = eSelf
    /\ eLast = [op |-> "none", out |-> "none"]
    /\ eDraws = 0

\* What a call that ran new_fuzzed leaves behind.
EnumAfterCall(op, res) ==
    /\ ePre' = eSelf
    /\ eSelf' = IF res.out = "value" THEN res.value ELSE eSelf
    /\ eDist' = res.dist
    /\ eDraws' = res.draws
    /\ eLast' = [op |-> op, out |-> res.out]
    /\ UNCHANGED <<eShape, eCode>>
    /\ EnumFrame

\* <E>::new_fuzzed(mutator, None) on an enum with payload variants.
EnumNewFuzzedItems ==
    /\ eCode.containsItems
    /\ \E res \in NewFuzzedEnum(eCode, eDist) : EnumAfterCall("new_fuzzed", res)

\* <E>::new_fuzzed(mutator, None) on an enum of unit variants.
EnumNewFuzzedUnit ==
    /\ ~eCode.containsItems
    /\ \E res \in NewFuzzedEnum(eCode, eDist) : EnumAfterCall("new_fuzzed", res)

\* EnumMutateReplace as it would be if mutate left a value without payload
\* as it is.
EnumMutateKeepsValue ==
    /\ eCode.replaceOnMutate
    /\ ePre' = eSelf
    /\ eSelf' = eSelf
    /\ eDraws' = 0
    /\ eLast' = [op |-> "mutate", out |-> "value"]
    /\ UNCHANGED <<eShape, eCode, eDist>>
    /\ EnumFrame

\* mutate when enum_has_simple_variants: *self = <#ident>::new_fuzzed(mutator, None);
EnumMutateReplace ==
    /\ eCode.replaceOnMutate
    /\ \E res \in NewFuzzedEnum(eCode, eDist) : EnumAfterCall("mutate", res)

\* mutate otherwise: match *self { #(#mutate_match_arms)* }, one arm per
\* declared variant, each mutating the payload fields in place.
EnumMutatePayload ==
    /\ ~eCode.replaceOnMutate
    /\ ePre' = eSelf
    /\ \E v \in LeafPayloads :
          eSelf' = Some(EnumValue(Unwrap(eSelf).variant, v))
    /\ eDraws' = 0
    /\ eLast' = [op |-> "mutate", out |-> "value"]
    /\ UNCHANGED <<eShape, eCode, eDist>>
    /\ EnumFrame

EnumNext ==
    \/ EnumNewFuzzedItems
    \/ EnumNewFuzzedUnit
    \/ EnumMutateReplace
    \/ EnumMutatePayload

\* ---------------------------------------------------------------- codec

\* Values handed to the codec.  A scalar is its type and its bit pattern as
\* an integer (two's complement for the signed types, the IEEE pattern for
\* the floats, the backing byte for bool); text is its UTF-8 bytes; a Vec
\* or slice is the sequence of its elements.
Scalar(ty, bits) == [kind |-> "scalar", ty |-> ty, bits |-> bits]
Text(bytes) == [kind |-> "String", bytes |-> bytes]
VecOf(elems) == [kind |-> "Vec", elems |-> elems]
SliceOf(elems) == [kind |-> "slice", elems |-> elems]

\* UnsafeEnum<T, P> of types.rs: Valid(T) holds a value of the semantic type,
\* Invalid(P) a value of the backing primitive.  p names P; inner is the value
\* held.
UnsafeEnumValid(p, inner) ==
    [kind |-> "UnsafeEnum", held |-> "Valid", p |-> p, inner |-> inner]
UnsafeEnumInvalid(p, bits) ==
    [kind |-> "UnsafeEnum", held |-> "Invalid", p |-> p, inner |-> Scalar(p, bits)]

\* ScalarSerializedSize as it would be if it measured a reference to the
\* value (size_of::<&$name>()) instead of the value.
ScalarSerializedSizeOfReference(ty) == 8

\* serialized_size of impl_serialized_size!: std::mem::size_of::<$name>().
ScalarSerializedSize(ty) == SizeOfType(ty)

\* The width byteorder's write_<name> writes: write_u8/write_i8 one byte,
\* write_u16::<E>/write_i16::<E> two, ... write_f64::<E> eight.
WriteWidth(ty) ==
    CASE ty \in {"u8", "i8"} -> 1
      [] ty \in {"u16", "i16"} -> 2
      [] ty \in {"u32", "i32", "f32"} -> 4
      [] ty \in {"u64", "i64", "f64"} -> 8

\* The n low bytes of a bit pattern, least significant first.
RECURSIVE LowBytes(_, _)
LowBytes(bits, n) ==
    IF n = 0 THEN << >>
    ELSE <<bits % 256>> \o LowBytes(bits \div 256, n - 1)

Reverse(q) == [k \in 1..Len(q) |-> q[Len(q) + 1 - k]]

\* ByteOrderWrite as it would be if the E parameter were not applied: the
\* bytes always least significant first.
ByteOrderWriteIgnoringE(bits, n, e) == LowBytes(bits, n)

\* E::write_<name>(buf, n): little-endian writes the least significant byte
\* first, big-endian the most significant.
ByteOrderWrite(bits, n, e) ==
    IF e = "LE" THEN LowBytes(bits, n) ELSE Reverse(LowBytes(bits, n))

\* ScalarBytes as it would be if a bool were written as `*self as u8`, which
\* yields 0 or 1.
ScalarBytesNormalizingBool(ty, bits, e) ==
    IF ty = "bool" THEN <<IF bits = 0 THEN 0 ELSE 1>>
    ELSE ByteOrderWrite(bits, WriteWidth(ty), e)

\* binary_serialize of a scalar: the bytes handed to the sink.
\*   bool: let value = *(self as *const bool as *const u8); buffer.write_u8(value)
\*   i8, u8: buffer.write_i8(*self) / buffer.write_u8(*self)
\*   the others: buffer.write_<name>::<E>(*self)
ScalarBytes(ty, bits, e) ==
    IF ty = "bool" THEN <<bits % 256>>
    ELSE ByteOrderWrite(bits, WriteWidth(ty), e)

\* [T]::serialized_size: 0 when empty, else
\* self.iter().map(SerializedSize::serialized_size).fold(0, |sum, i| sum + i).
RECURSIVE Fold(_, _, _)
Fold(sizes, k, sum) ==
    IF k > Len(sizes) THEN sum ELSE Fold(sizes, k + 1, sum + sizes[k])

\* SliceSerializedSize as it would be with a fixed stride: the first
\* element's size times the number of elements.
SliceSerializedSizeFixedStride(sizes) ==
    IF Len(sizes) = 0 THEN 0 ELSE Len(sizes) * sizes[1]

SliceSerializedSize(sizes) ==
    IF Len(sizes) = 0 THEN 0 ELSE Fold(sizes, 1, 0)

\* Vec<T>::serialized_size: 0 when empty, else
\* self.iter().map(SerializedSize::serialized_size).sum().
RECURSIVE IterSum(_, _)
IterSum(sizes, k) ==
    IF k > Len(sizes) THEN 0 ELSE sizes[k] + IterSum(sizes, k + 1)

VecSerializedSize(sizes) ==
    IF Len(sizes) = 0 THEN 0 ELSE IterSum(sizes, 1)

\* str / String serialized_size: self.as_bytes().len().
StringSerializedSize(bytes) == Len(bytes)

\* UnsafeEnum<T, P>::serialized_size: std::mem::size_of::<P>(), whatever is
\* held.
UnsafeEnumSerializedSize(p) == SizeOfType(p)

\* value.serialized_size().
RECURSIVE SerializedSize(_)
SerializedSize(x) ==
    CASE x.kind = "scalar" -> ScalarSerializedSize(x.ty)
      [] x.kind = "String" -> StringSerializedSize(x.bytes)
      [] x.kind = "slice" ->
            SliceSerializedSize([k \in 1..Len(x.elems) |-> SerializedSize(x.elems[k])])
      [] x.kind = "Vec" ->
            VecSerializedSize([k \in 1..Len(x.elems) |-> SerializedSize(x.elems[k])])
      [] x.kind = "UnsafeEnum" -> UnsafeEnumSerializedSize(x.p)

\* The serializable types: a scalar type, String (and str), a Vec or slice
\* of an element type, UnsafeEnum<T, P> with backing primitive p.
ScalarType(ty) == [kind |-> "scalar", ty |-> ty]
StringType == [kind |-> "String"]
SequenceType(kind, of) == [kind |-> kind, of |-> of]
UnsafeEnumType(p) == [kind |-> "UnsafeEnum", p |-> p]

\* T::min_nonzero_elements_size():
\*   scalars:         std::mem::size_of::<$name>()
\*   str, String:     std::mem::size_of::<char>(), which is 4
\*   [T], Vec<T>:     T::min_nonzero_elements_size()
\*   UnsafeEnum<T,P>: std::mem::size_of::<P>()
RECURSIVE MinNonzeroElementsSize(_)
MinNonzeroElementsSize(T) ==
    CASE T.kind = "scalar" -> SizeOfType(T.ty)
      [] T.kind = "String" -> 4
      [] T.kind \in {"slice", "Vec"} -> MinNonzeroElementsSize(T.of)
      [] T.kind = "UnsafeEnum" -> SizeOfType(T.p)

\* Write::write / write_all on an in-memory Vec<u8>: the bytes are appended.
SinkWrite(buffer, bytes) == buffer \o bytes

\* value.binary_serialize::<W, E>(buffer): the sink after the call.
\*   String: self.as_bytes().binary_serialize(buffer), and [u8] is one
\*           buffer.write(&self)
\*   [T]:    for item in self.iter() { item.binary_serialize::<W, E>(buffer) }
\*   Vec<T>: self.as_ref() as &[T], then as [T]
\*   UnsafeEnum<T, I>: match *self { Invalid(ref value) | Valid(ref value) =>
\*           value.binary_serialize::<_, E>(buffer) }
RECURSIVE BinarySerialize(_, _, _)
RECURSIVE SerializeItems(_, _, _, _)
SerializeItems(items, k, e, buffer) ==
    IF k > Len(items) THEN buffer
    ELSE SerializeItems(items, k + 1, e, BinarySerialize(items[k], e, buffer))

BinarySerialize(x, e, buffer) ==
    CASE x.kind = "scalar" -> SinkWrite(buffer, ScalarBytes(x.ty, x.bits, e))
      [] x.kind = "String" -> SinkWrite(buffer, x.bytes)
      [] x.kind \in {"slice", "Vec"} -> SerializeItems(x.elems, 1, e, buffer)
      [] x.kind = "UnsafeEnum" -> BinarySerialize(x.inner, e, buffer)

\* ------------------------------------------------------- codec operands

Endians == {"BE", "LE"}

\* Bit patterns tried for each scalar type.
ScalarSamples(ty) ==
    CASE ty = "bool" -> {0, 1, 7, 128, 255}
      [] ty = "u8" -> {0, 255}
      [] ty = "i8" -> {-128, 127}
      [] ty = "u16" -> {258, 65535}
      [] ty = "i16" -> {-2, 258}
      [] ty \in {"u32", "f32"} -> {16909060, 1}
      [] ty = "i32" -> {-16909060, 1}
      [] ty \in {"u64", "f64"} -> {16909060, 258}
      [] ty = "i64" -> {-1, 258}

ScalarOperands == {Scalar(ty, b) : ty \in ScalarTypes, b \in {0, 1}}
                    \cup UNION {{Scalar(ty, b) : b \in ScalarSamples(ty)} : ty \in ScalarTypes}

\* UTF-8 texts: "", "a", "é" (one character, two bytes), "aé".
TextOperands ==
    {Text(<< >>), Text(<<97>>), Text(<<195, 169>>), Text(<<97, 195, 169>>)}

SeqsUpTo(S, n) == UNION {[1..k -> S] : k \in 0..n}

\* Vec<T> and [T] operands: elements of one type, of sizes that differ when
\* the type's sizes do.
ElementPools ==
    { TextOperands,
      {Scalar("u16", 258), Scalar("u16", 65535)},
      {Scalar("u8", 0)},
      {VecOf(<< >>), VecOf(<<Scalar("u32", 1)>>)} }

SequenceOperands ==
    UNION {{VecOf(q) : q \in SeqsUpTo(P, MaxSeqLen)} : P \in ElementPools}
      \cup UNION {{SliceOf(q) : q \in SeqsUpTo(P, MaxSeqLen)} : P \in ElementPools}

\* The backing primitives P of UnsafeEnum<T, P>, and the semantic types T
\* tried: serializable types of one, two and four bytes.
BackingPrimitives == {"u8", "u16", "u32"}
SemanticTypes == {"u8", "u16", "u32"}

UnsafeEnumOperands ==
    {UnsafeEnumInvalid(p, b) : p \in BackingPrimitives, b \in {7, 258}}
        \cup {UnsafeEnumValid(p, Scalar(t, 1)) : p \in BackingPrimitives,
                                                  t \in SemanticTypes}

\* What the sink holds before the call.
SinkContents == {<< >>, <<170>>, <<1, 2, 3>>}

CodecInit ==
    /\ sink \in SinkContents
    /\ cOp = [op |-> "none"]
    /\ cSize = 0
    /\ cWrote = 0

\* x.serialized_size() and x.binary_serialize::<_, E>(&mut sink) on the
\* same operand.
CodecCall(x, e) ==
    /\ cOp' = [op |-> "serialize", x |-> x, e |-> e]
    /\ cSize' = SerializedSize(x)
    /\ sink' = BinarySerialize(x, e, sink)
    /\ cWrote' = Len(sink') - Len(sink)

SerializeScalar ==
    /\ cOp.op = "none"
    /\ \E x \in ScalarOperands, e \in Endians : CodecCall(x, e)
    /\ CodecFrame

SerializeString ==
    /\ cOp.op = "none"
    /\ \E x \in TextOperands, e \in Endians : CodecCall(x, e)
    /\ CodecFrame

SerializeSequence ==
    /\ cOp.op = "none"
    /\ \E x \in SequenceOperands, e \in Endians : CodecCall(x, e)
    /\ CodecFrame

SerializeUnsafeEnum ==
    /\ cOp.op = "none"
    /\ \E x \in UnsafeEnumOperands, e \in Endians : CodecCall(x, e)
    /\ CodecFrame

CodecNext ==
    \/ SerializeScalar
    \/ SerializeString
    \/ SerializeSequence
    \/ SerializeUnsafeEnum

\* ------------------------------------------ codec on a failing sink

\* A byte sequence: [u8], Vec<u8>, and the as_bytes() of a String or &str.
Bytes(bytes) == [kind |-> "bytes", bytes |-> bytes]

\* How a W: Write may answer one write(buf) call: it takes the whole buffer,
\* takes only its first byte (a short write), takes nothing (Ok(0)), fails
\* with ErrorKind::Interrupted, or fails with another error.
WriteAnswers == {"all", "short", "zero", "interrupted", "err"}

\* A sink: the bytes it accepted, the answers it still has for the write
\* calls to come (it takes everything once they are used up), and the
\* buffers the write calls handed to it.
Sink(buf, plan, log) == [buf |-> buf, plan |-> plan, log |-> log]

\* io::Result<usize> of a write call, with the sink after it.
WriteResult(snk, ok, n, interrupted) ==
    [sink |-> snk, ok |-> ok, n |-> n, interrupted |-> interrupted]

\* buffer.write(bytes).
SinkWriteCall(snk, bytes) ==
    LET answer == IF snk.plan = << >> THEN "all" ELSE Head(snk.plan)
        rest == IF snk.plan = << >> THEN << >> ELSE Tail(snk.plan)
        n == CASE answer = "all" -> Len(bytes)
               [] answer = "short" -> IF Len(bytes) > 1 THEN 1 ELSE Len(bytes)
               [] OTHER -> 0
        after == Sink(snk.buf \o SubSeq(bytes, 1, n), rest, Append(snk.log, bytes))
    IN WriteResult(after, answer \in {"all", "short", "zero"}, n,
                   answer = "interrupted")

\* Write::write_all(bytes), which byteorder's write_<ty> calls: write until
\* the buffer is empty; Ok(0) is Err(WriteZero), Interrupted is retried, any
\* other error is returned.
RECURSIVE WriteAll(_, _)
WriteAll(snk, bytes) ==
    IF bytes = << >> THEN WriteResult(snk, TRUE, 0, FALSE)
    ELSE LET r == SinkWriteCall(snk, bytes) IN
         IF r.ok
         THEN IF r.n = 0 THEN WriteResult(r.sink, FALSE, 0, FALSE)
              ELSE WriteAll(r.sink, SubSeq(bytes, r.n + 1, Len(bytes)))
         ELSE IF r.interrupted THEN WriteAll(r.sink, bytes)
              ELSE WriteResult(r.sink, FALSE, 0, FALSE)

\* ResultOk as it would be if the result were unwrapped: an Err panics.
ResultUnwrap(r) == IF r.ok THEN "returned" ELSE "panicked"

\* `.ok();` on the io::Result of a write: the result is turned into an
\* Option and dropped, whatever it was.
ResultOk(r) == "returned"

\* A binary_serialize call in progress: the sink, the leaf values whose
\* binary_serialize was entered, and whether control is still returning
\* normally.
Call(snk, tried, status) == [sink |-> snk, tried |-> tried, status |-> status]

\* value.binary_serialize::<W, E>(buffer) on a sink that may fail.
\*   scalars:     buffer.write_<ty>::<E>(*self).ok()
\*   [u8]:        buffer.write(&self).ok()
\*   String, &str: self.as_bytes().binary_serialize(buffer), the [u8] impl
\*   [T], Vec<T>: for item in self.iter() { item.binary_serialize(buffer) }
\*   UnsafeEnum:  the held value's binary_serialize
\* A panic in an element unwinds out of the loop.
RECURSIVE BinarySerializeTo(_, _, _)
RECURSIVE SerializeItemsTo(_, _, _, _)
SerializeItemsTo(items, k, e, call) ==
    IF k > Len(items) \/ call.status = "panicked" THEN call
    ELSE SerializeItemsTo(items, k + 1, e, BinarySerializeTo(items[k], e, call))

BinarySerializeTo(x, e, call) ==
    CASE x.kind = "scalar" ->
            LET r == WriteAll(call.sink, ScalarBytes(x.ty, x.bits, e))
            IN Call(r.sink, Append(call.tried, x), ResultOk(r))
      [] x.kind \in {"bytes", "String"} ->
            LET r == SinkWriteCall(call.sink, x.bytes)
            IN Call(r.sink, Append(call.tried, x), ResultOk(r))
      [] x.kind \in {"slice", "Vec"} -> SerializeItemsTo(x.elems, 1, e, call)
      [] x.kind = "UnsafeEnum" -> BinarySerializeTo(x.inner, e, call)

\* The sinks tried: every sequence of at most MaxFaults answers.
SinkPlans == SeqsUpTo(WriteAnswers, MaxFaults)

ByteOperands == {Bytes(<< >>), Bytes(<<9>>), Bytes(<<1, 2, 3>>)}

\* Vec<T> and [T] operands for T other than u8: elements of two and four
\* bytes, text, and nested sequences.
SinkElementPools ==
    { {Scalar("u16", 258), Scalar("u16", 65535)},
      {Text(<<97>>), Text(<<97, 195, 169>>)},
      {VecOf(<< >>), VecOf(<<Scalar("u32", 1)>>)} }

SinkSequenceOperands ==
    UNION {{VecOf(q) : q \in SeqsUpTo(P, MaxSeqLen)} : P \in SinkElementPools}
      \cup UNION {{SliceOf(q) : q \in SeqsUpTo(P, MaxSeqLen)} : P \in SinkElementPools}

SinkInit ==
    /\ wPlan \in SinkPlans
    /\ wSink = Sink(<< >>, wPlan, << >>)
    /\ wOp = [op |-> "none"]
    /\ wTried = << >>
    /\ wRet = "none"

\* x.binary_serialize::<_, E>(&mut sink).
SinkCall(x, e) ==
    LET call == BinarySerializeTo(x, e, Call(wSink, << >>, "returned")) IN
    /\ wOp' = [op |-> "serialize", x |-> x, e |-> e]
    /\ wSink' = call.sink
    /\ wTried' = call.tried
    /\ wRet' = call.status
    /\ UNCHANGED wPlan

SinkSerializeScalar ==
    /\ wOp.op = "none"
    /\ \E x \in ScalarOperands, e \in Endians : SinkCall(x, e)
    /\ SinkFrame

SinkSerializeBytes ==
    /\ wOp.op = "none"
    /\ \E x \in ByteOperands \cup TextOperands, e \in Endians : SinkCall(x, e)
    /\ SinkFrame

SinkSerializeSequence ==
    /\ wOp.op = "none"
    /\ \E x \in SinkSequenceOperands, e \in Endians : SinkCall(x, e)
    /\ SinkFrame

SinkSerializeUnsafeEnum ==
    /\ wOp.op = "none"
    /\ \E x \in UnsafeEnumOperands, e \in Endians : SinkCall(x, e)
    /\ SinkFrame

SinkNext ==
    \/ SinkSerializeScalar
    \/ SinkSerializeBytes
    \/ SinkSerializeSequence
    \/ SinkSerializeUnsafeEnum

\* Struct generation: one new_fuzzed call on one struct type.
GenStart == GenInit /\ MutIdle /\ EnumIdle /\ CodecIdle /\ SinkIdle
SpecGen == GenStart /\ [][GenNext]_vars

\* Struct mutation: one mutate call on one struct value.
MutStart == MutInit /\ GenIdle /\ EnumIdle /\ CodecIdle /\ SinkIdle
SpecMut == MutStart /\ [][MutNext]_vars

\* Enum generation and mutation: calls on one enum type, one after another.
EnumStart == EnumInit /\ GenIdle /\ MutIdle /\ CodecIdle /\ SinkIdle
SpecEnum == EnumStart /\ [][EnumNext]_vars

\* The codec: serialized_size and binary_serialize calls on one sink.
CodecStart == CodecInit /\ GenIdle /\ MutIdle /\ EnumIdle /\ SinkIdle
SpecCodec == CodecStart /\ [][CodecNext]_vars

\* The codec on a sink that may fail: one binary_serialize call.
SinkStart == SinkInit /\ GenIdle /\ MutIdle /\ EnumIdle /\ CodecIdle
SpecSink == SinkStart /\ [][SinkNext]_vars

\* ------------------------------------------------ claims: generation

IntegerTypes == {"i64", "u64", "i32", "u32", "i16", "u16", "u8", "i8"}

\* A struct of two generated fixed-width integer fields and one generated
\* text field.
TwoIntegersOneText(sh) ==
    /\ Len(sh) = 3
    /\ \A i \in 1..3 : ~sh[i].ignore /\ ~IsSome(sh[i].init)
    /\ Cardinality({i \in 1..3 : sh[i].ty = "String"}) = 1
    /\ Cardinality({i \in 1..3 : sh[i].ty \in IntegerTypes}) = 2

\* C1: a struct of two fixed-width integers and one text field generated
\* with incoming max_size = Some(20) has, whatever the visitation order, an
\* encoded byte length of at most 20.
C1_EncodedLengthWithinBudget ==
    (/\ pc = "done"
     /\ TwoIntegersOneText(shape)
     /\ consIn = Some(Constraints(None, None, "None", Some(20))))
        => EncodedLength <= 20

\* C2: the remaining budget never goes negative: no per-field decrement
\* takes more than what is left, so the subtraction neither panics nor wraps.
C2_BudgetNeverUnderflows ==
    /\ pc # "panicked"
    /\ IsSome(max_size) => Unwrap(max_size) >= 0

\* -------------------------------------------------- claims: mutation

Events(log) == {log[k] : k \in 1..Len(log)}

\* C3: when should_early_bail_mutation answers true after the k-th field,
\* every field declared after the k-th has, when mutate returns, exactly its
\* pre-mutation value: it was neither mutated nor fixed up.
C3_BailLeavesLaterFieldsUntouched ==
    (mPc = "returned" /\ mBailedAt > 0) =>
        \A j \in (mBailedAt + 1)..mN :
            /\ mVal[j] = mPre[j]
            /\ <<"mutate", j>> \notin Events(mLog)
            /\ <<"fixup", j>> \notin Events(mLog)

\* A bail after the first field of a struct that has later fields, with
\* fixups enabled.
C3_Witness ==
    /\ mPc = "returned"
    /\ mBailedAt = 1
    /\ mN >= 2
    /\ mShouldFixup
    /\ mVal[1] # mPre[1]

\* ----------------------------------------------------- claims: enums

HasPayloadVariant(sh) == \E d \in 1..Len(sh) : sh[d].payload

\* C4: for an enum with at least one payload-carrying variant (unit
\* variants may be declared beside it), mutate never changes the active
\* variant.
C4_MutateKeepsVariant ==
    (/\ eLast = [op |-> "mutate", out |-> "value"]
     /\ HasPayloadVariant(eShape))
        => Unwrap(eSelf).variant = Unwrap(ePre).variant

\* C5: generation never produces a non-ignored variant whose declared
\* weight is 0, for enums with payload variants and for unit-only enums.
C5_ZeroWeightNeverGenerated ==
    eLast = [op |-> "new_fuzzed", out |-> "value"]
        => eShape[Unwrap(eSelf).variant].weight > 0

\* C6: an enum whose non-ignored variants have total weight zero is
\* rejected when its selector is constructed: every generation call on it
\* fails there, having taken no draw.
C6_ZeroTotalWeightRejectedAtConstruction ==
    (/\ eLast.op = "new_fuzzed"
     /\ Len(eCode.weights) > 0
     /\ TotalWeight(eCode.weights) = 0)
        => (eLast.out = "panic_construct" /\ eDraws = 0)

NotIgnored(sh) == {d \in 1..Len(sh) : ~sh[d].ignore}

\* C7: generation never produces a variant marked ignore, and the weight
\* list and the variant list the selector indexes hold exactly the
\* non-ignored variants, in declaration order, weight k belonging to
\* variant k.
C7_IgnoredNeverGenerated ==
    LET kept == eCode.options
        w == eCode.weights
    IN /\ eLast = [op |-> "new_fuzzed", out |-> "value"]
            => ~eShape[Unwrap(eSelf).variant].ignore
       /\ kept = KeptVariants(eShape)
       /\ {kept[k] : k \in 1..Len(kept)} = NotIgnored(eShape)
       /\ \A i, j \in 1..Len(kept) : i < j => kept[i] < kept[j]
       /\ Len(w) = Len(kept)
       /\ \A k \in 1..Len(kept) : w[k] = eShape[kept[k]].weight
       /\ \A num \in DOMAIN eCode.arms :
              /\ num \in 1..Len(kept)
              /\ kept[num] = eCode.arms[num]

\* Generation returned a variant declared after an ignored variant of
\* nonzero weight, so that the selector's positions differ from the declared.
C7_Witness ==
    /\ eLast = [op |-> "new_fuzzed", out |-> "value"]
    /\ Unwrap(eSelf).variant = 3
    /\ eShape[2].ignore /\ eShape[2].weight > 0
    /\ eShape[1].weight > 0 /\ ~eShape[1].ignore
    /\ eShape[3].payload

\* ----------------------------------------------------- claims: codec

\* C9: for every primitive scalar (i8, u8, i16, u16, i32, u32, i64, u64,
\* f32, f64, bool) and for String, binary_serialize appends to an in-memory
\* sink exactly serialized_size() bytes, under both endiannesses.
C9_ScalarSizeIsEncodedLength ==
    (cOp.op = "serialize" /\ cOp.x.kind \in {"scalar", "String"})
        => cWrote = cSize

\* An eight-byte scalar was serialized big-endian onto a sink that already
\* held three bytes.
C9_Witness ==
    /\ cOp.op = "serialize"
    /\ cOp.x.kind = "scalar"
    /\ cOp.x.ty = "f64"
    /\ cOp.e = "BE"
    /\ cWrote = 8
    /\ Len(sink) = 11

\* The sum of the serialized sizes of the elements of a sequence, taken
\* from its last element back.
RECURSIVE SumOfElementSizes(_)
SumOfElementSizes(elems) ==
    IF elems = << >> THEN 0
    ELSE SumOfElementSizes(SubSeq(elems, 1, Len(elems) - 1))
            + SerializedSize(elems[Len(elems)])

\* C10: serialized_size of a slice and of a Vec is the sum of the
\* serialized sizes of its elements, 0 for the empty sequence, and the two
\* implementations agree on every sequence.
C10_SequenceSizeIsSumOfElements ==
    (cOp.op = "serialize" /\ cOp.x.kind \in {"slice", "Vec"}) =>
        /\ cSize = SumOfElementSizes(cOp.x.elems)
        /\ cOp.x.elems = << >> => cSize = 0
        /\ SerializedSize(SliceOf(cOp.x.elems)) = SerializedSize(VecOf(cOp.x.elems))

\* A sequence of three elements of three different sizes was measured.
C10_Witness ==
    /\ cOp.op = "serialize"
    /\ cOp.x.kind = "Vec"
    /\ Len(cOp.x.elems) = 3
    /\ Cardinality({SerializedSize(cOp.x.elems[k]) : k \in 1..3}) = 3
    /\ cSize = 6

\* C11: for UnsafeEnum<T, P>, serialized_size is the byte width of P
\* whether Valid or Invalid is held, and binary_serialize writes that many
\* bytes for the held variant.
C11_UnsafeEnumSizeIsPrimitiveWidth ==
    (cOp.op = "serialize" /\ cOp.x.kind = "UnsafeEnum") =>
        /\ cSize = SizeOfType(cOp.x.p)
        /\ cWrote = cSize

\* The bytes the last binary_serialize appended to the sink.
Written == SubSeq(sink, Len(sink) - cWrote + 1, Len(sink))

MultiByteIntegers == {"i16", "u16", "i32", "u32", "i64", "u64"}

\* The byte of significance k (0 the least significant) of a bit pattern.
RECURSIVE ByteOfSignificance(_, _)
ByteOfSignificance(bits, k) ==
    IF k = 0 THEN bits % 256 ELSE ByteOfSignificance(bits \div 256, k - 1)

\* An n-byte integer laid out most significant byte first (big-endian) or
\* least significant byte first (little-endian).
IntegerLayout(bits, n, e) ==
    [j \in 1..n |-> ByteOfSignificance(bits, IF e = "BE" THEN n - j ELSE j - 1)]

\* The layout of a value all of whose multi-byte scalars are laid out in
\* the byte order e.
RECURSIVE Layout(_, _)
RECURSIVE LayoutOfElements(_, _)
LayoutOfElements(elems, e) ==
    IF elems = << >> THEN << >>
    ELSE Layout(Head(elems), e) \o LayoutOfElements(Tail(elems), e)

Layout(x, e) ==
    CASE x.kind = "scalar" -> IntegerLayout(x.bits, SizeOfType(x.ty), e)
      [] x.kind = "String" -> x.bytes
      [] x.kind \in {"slice", "Vec"} -> LayoutOfElements(x.elems, e)
      [] x.kind = "UnsafeEnum" -> Layout(x.inner, e)

\* C12: a multi-byte integer is written most significant byte first under
\* big-endian and least significant byte first under little-endian (0x0102
\* as a 2-byte integer gives [1, 2] and [2, 1]), and the byte order chosen
\* for a sequence or wrapper encode is applied to every element inside it.
C12_EndiannessApplied ==
    cOp.op = "serialize" =>
        /\ (cOp.x.kind = "scalar" /\ cOp.x.ty \in MultiByteIntegers)
              => Written = IntegerLayout(cOp.x.bits, SizeOfType(cOp.x.ty), cOp.e)
        /\ cOp.x = Scalar("u16", 258)
              => Written = (IF cOp.e = "BE" THEN <<1, 2>> ELSE <<2, 1>>)
        /\ cOp.x.kind \in {"slice", "Vec", "UnsafeEnum"}
              => Written = Layout(cOp.x, cOp.e)

\* A Vec of the 2-byte integers 0x0102 and 0xFFFF was encoded big-endian.
C12_Witness ==
    /\ cOp.op = "serialize"
    /\ cOp.x = VecOf(<<Scalar("u16", 258), Scalar("u16", 65535)>>)
    /\ cOp.e = "BE"
    /\ Written = <<1, 2, 255, 255>>

\* C13: a bool whose backing byte is b (any of 0..255) is written as the
\* single byte b, not normalized to 0 or 1.
C13_BoolWritesBackingByte ==
    (cOp.op = "serialize" /\ cOp.x.kind = "scalar" /\ cOp.x.ty = "bool") =>
        /\ cWrote = 1
        /\ Written = <<cOp.x.bits>>

\* A bool whose backing byte is 7 was written onto a sink that held bytes.
C13_Witness ==
    /\ cOp.op = "serialize"
    /\ cOp.x = Scalar("bool", 7)
    /\ sink = <<1, 2, 3, 7>>

\* The type of a value of nonzero serialized size: a sequence of nonzero
\* size has an element of nonzero size, which shows the element type.
RECURSIVE TypeOf(_)
TypeOf(x) ==
    CASE x.kind = "scalar" -> ScalarType(x.ty)
      [] x.kind = "String" -> StringType
      [] x.kind = "UnsafeEnum" -> UnsafeEnumType(x.p)
      [] x.kind \in {"slice", "Vec"} ->
            SequenceType(x.kind,
                TypeOf(CHOOSE el \in {x.elems[k] : k \in 1..Len(x.elems)} :
                           SerializedSize(el) > 0))

\* C14: min_nonzero_elements_size() of a type is at most the serialized
\* size of every value of the type whose serialized size is not zero.
C14_MinNonzeroIsLowerBound ==
    (cOp.op = "serialize" /\ cSize > 0)
        => MinNonzeroElementsSize(TypeOf(cOp.x)) <= cSize

\* ------------------------------------------------ claims: enums (2)

AllUnitVariants(sh) == \A d \in 1..Len(sh) : ~sh[d].payload

\* C15: for an enum whose variants are all unit variants, mutate ends as a
\* fresh new_fuzzed call with no constraints ends: it takes the same draw
\* and holds the value generation returns for that draw, which is never an
\* ignored variant, whatever was held before; where generation fails,
\* mutate fails the same way.
C15_UnitMutateIsFreshGeneration ==
    (eLast.op = "mutate" /\ AllUnitVariants(eShape)) =>
        /\ \E r \in NewFuzzedUnit(eCode, eDist) :
              /\ r.out = eLast.out
              /\ r.draws = eDraws
              /\ r.out = "value" => eSelf = r.value
        /\ eLast.out = "value" =>
              /\ ~eShape[Unwrap(eSelf).variant].ignore
              /\ \E k \in 1..Len(KeptVariants(eShape)) :
                    eSelf = Some(EnumValue(KeptVariants(eShape)[k], 0))

\* mutate on an enum of unit variants that held an ignored variant left
\* another variant behind.
C15_Witness ==
    /\ eLast = [op |-> "mutate", out |-> "value"]
    /\ AllUnitVariants(eShape)
    /\ eShape[Unwrap(ePre).variant].ignore
    /\ Unwrap(eSelf).variant # Unwrap(ePre).variant
    /\ Len(eShape) = 3

\* ------------------------------------------- claims: failing sinks

\* The leaf values of a value, in the order binary_serialize meets them.
RECURSIVE Leaves(_)
RECURSIVE LeavesOfElements(_)
LeavesOfElements(elems) ==
    IF elems = << >> THEN << >>
    ELSE Leaves(Head(elems)) \o LeavesOfElements(Tail(elems))

Leaves(x) ==
    CASE x.kind \in {"scalar", "bytes", "String"} -> <<x>>
      [] x.kind \in {"slice", "Vec"} -> LeavesOfElements(x.elems)
      [] x.kind = "UnsafeEnum" -> Leaves(x.inner)

\* C16: binary_serialize of a scalar, byte sequence, string, sequence or
\* wrapper returns normally whatever the sink's writes answer (an error, a
\* short write), and every element of a sequence is attempted, those after
\* a failed element write included.
C16_FailingSinkNeverFailsEncode ==
    wOp.op = "serialize" =>
        /\ wRet = "returned"
        /\ wTried = Leaves(wOp.x)
        /\ Len(wSink.log) >= Len(wTried)

\* The first element write of a Vec of three 2-byte integers failed, and the
\* two later elements were written.
C16_Witness ==
    /\ wOp.op = "serialize"
    /\ wOp.x = VecOf(<<Scalar("u16", 258), Scalar("u16", 65535), Scalar("u16", 258)>>)
    /\ wOp.e = "BE"
    /\ wPlan = <<"err">>
    /\ wRet = "returned"
    /\ wSink.buf = <<255, 255, 1, 2>>
    /\ Len(wTried) = 3

\* ------------------------------------------ claims: generation (2)

\* The body is past the choice of the visitation order.
OrderChosen == pc \in {"fields", "done", "panicked"}

\* The fields stored so far: those at the positions already visited.
Visited == {order[k] : k \in 1..(pos - 1)}

\* C17: every field is produced and stored exactly once before the value is
\* assembled; a variable-size struct visits its fields in a permutation of
\* 0..n-1 drawn from the random source (no index repeated or missing), a
\* fixed-size struct in declaration order with no permutation draw.
C17_EveryFieldStoredOnce ==
    /\ OrderChosen =>
          /\ Len(order) = NumFields
          /\ {order[k] : k \in 1..Len(order)} = 1..NumFields
          /\ \A i \in 1..NumFields : IsSome(fields[i]) <=> i \in Visited
          /\ Cardinality(Visited) = pos - 1
          /\ IsVariableSize(shape) => rngDraws = 1
          /\ ~IsVariableSize(shape) =>
                /\ rngDraws = 0
                /\ \A k \in 1..NumFields : order[k] = k
    /\ ~OrderChosen => rngDraws = 0 /\ \A i \in 1..NumFields : ~IsSome(fields[i])
    /\ pc = "done" => \A i \in 1..NumFields : IsSome(fields[i])

\* A variable-size struct of three fields was assembled after its fields
\* were visited last to first.
C17_Witness ==
    /\ pc = "done"
    /\ IsVariableSize(shape)
    /\ NumFields = 3
    /\ \A k \in 1..3 : order[k] = 4 - k
    /\ rngDraws = 1
    /\ \A i \in 1..3 : IsSome(fields[i])

\* A field declares a constraint of its own.
DeclaresConstraint(f) == IsSome(f.min) \/ IsSome(f.max) \/ f.weighted # "None"

\* C18: the constraint handed to a field's generator carries the field's
\* declared min, max and weighted whenever any of the three is declared, a
\* field that declares only a weighting included; otherwise it carries only
\* the remaining max_size, and there is none when there is no budget.
C18_DeclaredConstraintsPassedOn ==
    \A c \in 1..Len(calls) :
        LET f == shape[calls[c].field]
            cons == calls[c].cons
        IN /\ DeclaresConstraint(f) =>
                 /\ IsSome(cons)
                 /\ Unwrap(cons).min = f.min
                 /\ Unwrap(cons).max = f.max
                 /\ Unwrap(cons).weighted = f.weighted
           /\ ~DeclaresConstraint(f) =>
                 \/ cons = None /\ consIn \in {None, Some(ConstraintsDefault)}
                 \/ /\ IsSome(cons)
                    /\ IsSome(Unwrap(cons).max_size)
                    /\ Unwrap(cons) =
                         Constraints(None, None, "None", Unwrap(cons).max_size)

\* The fields whose generator was invoked.
Called == {calls[c].field : c \in 1..Len(calls)}

\* C19: an ignored field gets its type's default value, a field with a
\* user initializer that expression's value, and the default when it is
\* both; the generator of neither is invoked and the body takes no draw for
\* them.
C19_IgnoredAndInitializedBypassGeneration ==
    /\ \A i \in 1..NumFields :
          /\ (IsSome(fields[i]) /\ shape[i].ignore)
                => Unwrap(fields[i]) = DefaultValue(shape[i].ty)
          /\ (IsSome(fields[i]) /\ ~shape[i].ignore /\ IsSome(shape[i].init))
                => Unwrap(fields[i]) = InitializerValue(shape[i])
          /\ (shape[i].ignore \/ IsSome(shape[i].init)) => i \notin Called
          /\ (IsSome(fields[i]) /\ ~shape[i].ignore /\ ~IsSome(shape[i].init))
                => i \in Called
    /\ rngDraws = (IF OrderChosen /\ IsVariableSize(shape) THEN 1 ELSE 0)

\* A struct was assembled whose ignored field also has an initializer that
\* yields text of two bytes, and one whose other fields were generated.
C19_Witness ==
    /\ pc = "done"
    /\ NumFields = 3
    /\ shape[3].ignore /\ shape[3].init = Some(2) /\ shape[3].ty = "String"
    /\ Unwrap(fields[3]) = DefaultValue("String")
    /\ Called = {1, 2}

\* C20: the fixup pass of generation runs if and only if should_fixup is
\* true, once, after every field was produced and stored, and calls fixup
\* on every field once, in declaration order, whatever the order in which
\* the fields were generated.
C20_FixupOnceInDeclarationOrder ==
    /\ pc = "done" =>
          fixupLog = (IF shouldFixup THEN [k \in 1..NumFields |-> k] ELSE << >>)
    /\ pc # "done" => fixupLog = << >>
    /\ fixupLog # << >> => \A i \in 1..NumFields : IsSome(fields[i])

\* The fields of a struct were generated in the order third, first, second
\* and then fixed up first to third.
C20_Witness ==
    /\ pc = "done"
    /\ shouldFixup
    /\ NumFields = 3
    /\ order[1] = 3 /\ order[2] = 1 /\ order[3] = 2
    /\ fixupLog = <<1, 2, 3>>

\* ------------------------------------------------ claims: mutation (2)

\* The mutate calls and the should_early_bail_mutation consultations of the
\* log, the fixup calls left out.
MutationSteps == SelectSeq(mLog, LAMBDA ev : ev[1] \in {"mutate", "bail?"})

\* The fixup calls of the log.
FixupSteps == SelectSeq(mLog, LAMBDA ev : ev[1] = "fixup")

\* The number of fields mutated so far in this pass.
MutatedCount == Len(SelectSeq(mLog, LAMBDA ev : ev[1] = "mutate"))

\* C21: mutate mutates the fields one at a time in declaration order and
\* consults should_early_bail_mutation once per mutated field, right after
\* that field's mutation and never before the first; the mutated fields are
\* a prefix of the declaration order, non-empty for a non-empty struct, and
\* a pass with no bail consults the decision n times for n fields.
C21_MutateInOrderBailAfterEach ==
    /\ Len(MutationSteps) = 2 * MutatedCount
    /\ \A j \in 1..MutatedCount :
          /\ MutationSteps[2 * j - 1] = <<"mutate", j>>
          /\ MutationSteps[2 * j] = <<"bail?", j>>
    /\ MutatedCount <= mN
    /\ \A j \in (MutatedCount + 1)..mN : mVal[j] = mPre[j]
    /\ (mPc = "returned" /\ mN > 0) => MutatedCount >= 1
    /\ (mPc = "returned" /\ mBailedAt = 0) => MutatedCount = mN
    /\ (mPc = "returned" /\ mBailedAt > 0) => MutatedCount = mBailedAt

\* A pass over three fields returned with no bail.
C21_Witness ==
    /\ mPc = "returned"
    /\ mN = 3
    /\ mBailedAt = 0
    /\ MutatedCount = 3
    /\ Len(MutationSteps) = 6

\* C22: a bail after field k calls fixup on field k only, and only if
\* should_fixup is true, and returns at once: no other field is fixed up,
\* the fields mutated before k included, and the whole-value fixup is not
\* run.
C22_BailFixesUpOnlyTheFieldItStoppedOn ==
    (mPc = "returned" /\ mBailedAt > 0) =>
        /\ FixupSteps = (IF mShouldFixup THEN << <<"fixup", mBailedAt>> >> ELSE << >>)
        /\ mShouldFixup => mLog[Len(mLog)] = <<"fixup", mBailedAt>>
        /\ ~mShouldFixup => mLog[Len(mLog)] = <<"bail?", mBailedAt>>
        /\ \A j \in 1..mN : mVal[j].fixed <=> (mShouldFixup /\ j = mBailedAt)

\* A bail after the second of three fields, with fixups enabled, after the
\* first field was mutated to another payload.
C22_Witness ==
    /\ mPc = "returned"
    /\ mBailedAt = 2
    /\ mN = 3
    /\ mShouldFixup
    /\ mVal[1].v # mPre[1].v
    /\ ~mVal[1].fixed

\* The last n entries of the log.
LogTail(n) == SubSeq(mLog, Len(mLog) - n + 1, Len(mLog))

\* C23, as stated: with fixups enabled, whenever mutate returns, the
\* value's fixup pass (fixup of every field) has run after the last field
\* mutation, on a completed pass and on an early return alike.
C23_FixupPassRunsOnEveryReturn ==
    (mPc = "returned" /\ mShouldFixup) =>
        /\ Len(mLog) >= mN
        /\ LogTail(mN) = FixupAllEvents(mN)
        /\ \A j \in 1..mN : mVal[j].fixed

\* C23, amended: with fixups enabled, when mutate returns after a pass that
\* mutated every field with no bail, the value's fixup pass has run once,
\* over every field in declaration order, after the last field mutation;
\* when it returns on a bail (one decided after the last field included)
\* the fixup of the field it stopped on has run after that field's mutation
\* and the value's fixup pass has not.  Without fixups nothing is fixed up.
C23_FixupPassRunsOnCompletedPass ==
    mPc = "returned" =>
        /\ (mShouldFixup /\ mBailedAt = 0) =>
              /\ FixupSteps = FixupAllEvents(mN)
              /\ LogTail(mN) = FixupAllEvents(mN)
              /\ \A j \in 1..mN : mVal[j].fixed
        /\ (mShouldFixup /\ mBailedAt > 0) =>
              /\ FixupSteps = << <<"fixup", mBailedAt>> >>
              /\ LogTail(2) = << <<"bail?", mBailedAt>>, <<"fixup", mBailedAt>> >>
              /\ mVal[mBailedAt].fixed
              /\ \A j \in 1..mN : j # mBailedAt => ~mVal[j].fixed
        /\ ~mShouldFixup =>
              /\ FixupSteps = << >>
              /\ \A j \in 1..mN : ~mVal[j].fixed

\* With fixups enabled, a bail decided after the last of three fields: the
\* pass mutated every field and only the last one was fixed up.
C23_Witness ==
    /\ mPc = "returned"
    /\ mShouldFixup
    /\ mN = 3
    /\ mBailedAt = 3
    /\ MutatedCount = 3
    /\ mVal[3].fixed /\ ~mVal[1].fixed /\ ~mVal[2].fixed

\* The on_success calls of the log.
OnSuccessSteps == SelectSeq(mLog, LAMBDA ev : ev[1] = "on_success")

\* One on_success call per field, first field to last.
OncePerFieldInDeclarationOrder(steps) ==
    /\ Len(steps) = mN
    /\ \A k \in 1..mN : steps[k] = <<"on_success", k>>

\* C24, as stated: the on-success hook is invoked as part of the mutation
\* call, after the fixup: when mutate returns (pass completed or returned
\* early) it has run once per field, in declaration order.
C24_OnSuccessRunsInsideMutate ==
    mPc = "returned" =>
        /\ OncePerFieldInDeclarationOrder(OnSuccessSteps)
        /\ Len(mLog) >= mN
        /\ OncePerFieldInDeclarationOrder(LogTail(mN))

\* C24, amended: mutate itself never invokes the on-success hook, neither
\* on a completed pass nor on an early return; the hook is an operation of
\* its own which, called on the value mutate returned, invokes on_success
\* once per field in declaration order, after every mutation and fixup of
\* the pass, and modifies no field.
C24_OnSuccessIsSeparateFromMutate ==
    /\ [](/\ mPc \in {"fields", "returned"} => OnSuccessSteps = << >>
          /\ mPc = "observed" =>
                /\ OncePerFieldInDeclarationOrder(OnSuccessSteps)
                /\ OncePerFieldInDeclarationOrder(LogTail(mN)))
    /\ [][mPc' = "observed" => mVal' = mVal]_vars

\* The hook was called on a struct of three fields whose mutate had
\* returned on a bail after the second field, with fixups enabled.
C24_Witness ==
    /\ mPc = "observed"
    /\ mN = 3
    /\ mBailedAt = 2
    /\ mShouldFixup
    /\ LogTail(4) = << <<"fixup", 2>>, <<"on_success", 1>>,
                       <<"on_success", 2>>, <<"on_success", 3>> >>

\* ------------------------------------------------ claims: enums (3)

\* C25: for an enum with a payload-carrying variant, every index the
\* selector can draw, the position of a non-ignored variant (a unit variant
\* of the same enum included), yields a value of the variant at that
\* position; the fatal "invalid number" arm is not reached for such an
\* index, and the selector draws no other.
C25_EveryDrawnIndexYieldsItsVariant ==
    (eLast.op = "new_fuzzed" /\ eCode.containsItems) =>
        /\ eLast.out # "panic_invalid_number"
        /\ eLast.out = "value" =>
              \E k \in 1..Len(eCode.options) :
                  /\ eCode.options[k] = Unwrap(eSelf).variant
                  /\ eCode.weights[k] > 0

\* ------------------------------------------ claims: generation (3)

\* The caller passed a constraint that has a max_size.
HasBudget == IsSome(consIn) /\ IsSome(Unwrap(consIn).max_size)

\* The position at which a field is visited.
PositionOf(i) == CHOOSE k \in 1..Len(order) : order[k] = i

\* The sum of the serialized sizes of the fields visited before position p.
RECURSIVE SizeVisitedBefore(_)
SizeVisitedBefore(p) ==
    IF p <= 1 THEN 0
    ELSE SizeVisitedBefore(p - 1)
            + ValueSerializedSize(Unwrap(fields[order[p - 1]]))

\* C26: generation never modifies the caller's constraint; the budget
\* handed to a field is the incoming max_size minus the serialized sizes of
\* all fields visited before it, ignored and fixed-initializer fields
\* included (in usize arithmetic: a negative number here stands for the
\* wrapped value), whatever the children did with the constraint they were
\* handed; with no incoming constraint or no max_size in it, no field is
\* handed a budget.
C26_BudgetIsIncomingMinusVisited ==
    /\ [](/\ \A c \in 1..Len(calls) :
               LET handed == calls[c].cons
                   before == SizeVisitedBefore(PositionOf(calls[c].field))
               IN IF HasBudget
                  THEN /\ IsSome(handed)
                       /\ Unwrap(handed).max_size =
                            Some(Unwrap(Unwrap(consIn).max_size) - before)
                  ELSE handed = None \/ Unwrap(handed).max_size = None
          /\ pc \in {"fields", "done"} =>
                max_size = (IF HasBudget
                            THEN Some(Unwrap(Unwrap(consIn).max_size)
                                        - SizeVisitedBefore(pos))
                            ELSE None))
    /\ [][consIn' = consIn]_vars

\* With an incoming max_size of 10, an ignored 4-byte field and a 2-byte
\* field with an initializer were visited before the text field, whose
\* generator was handed a budget of 4.
C26_Witness ==
    /\ pc = "done"
    /\ consIn = Some(Constraints(None, None, "None", Some(10)))
    /\ NumFields = 3
    /\ shape[1].ignore /\ shape[1].ty = "u32"
    /\ IsSome(shape[3].init) /\ shape[3].ty = "u16"
    /\ order[3] = 2
    /\ calls = <<[field |-> 2,
                  cons |-> Some(Constraints(None, None, "None", Some(4)))]>>

=============================================================================
